---- MODULE Spec2Model ----
(***************************************************************************)
(* Model of retail_promotions_to_shopify_metafields.py: promotion rows are *)
(* read from the table, folded into one VendorPlan per vendor, and the     *)
(* sync loop of main writes or deletes the four date metafields of every   *)
(* product of the vendor.                                                  *)
(*                                                                         *)
(* Dates are day numbers (integers); timedelta(days=n) is integer          *)
(* addition.  A string is a sequence of one-character strings, so that     *)
(* normalize() can be computed.  Optional[date] is a sequence of length 0  *)
(* (None) or 1.  RetailPromoRow.id is never read by the program and is     *)
(* left out of the rows.                                                   *)
(***************************************************************************)
EXTENDS Integers, Sequences, FiniteSets, TLC

(* ---------------- bounds of the model ---------------- *)
MaxDay == 2
MaxRows == 2
MaxOffset == 1

Days == 1..MaxDay
Offsets == 0..MaxOffset

(* ---------------- Optional[date] ---------------- *)
None == <<>>
Some(d) == <<d>>
IsNone(o) == o = <<>>
Val(o) == o[1]
OptDays == {None} \cup {Some(d) : d \in Days}

Min2(a, b) == IF a <= b THEN a ELSE b
Max2(a, b) == IF a >= b THEN a ELSE b

(* ---------------- strings ---------------- *)
\* the characters of the model: the letters A B E I L O P S in both cases,
\* other lower-case letters, and the space
IsSpace(c) == c = " "

Lower(c) ==
    CASE c = "A" -> "a"
      [] c = "B" -> "b"
      [] c = "E" -> "e"
      [] c = "I" -> "i"
      [] c = "L" -> "l"
      [] c = "O" -> "o"
      [] c = "P" -> "p"
      [] c = "S" -> "s"
      [] OTHER -> c

LowerStr(s) == [k \in 1..Len(s) |-> Lower(s[k])]

RECURSIVE LStrip(_)
LStrip(s) == IF s # <<>> /\ IsSpace(s[1]) THEN LStrip(Tail(s)) ELSE s

RECURSIVE RStrip(_)
RStrip(s) ==
    IF s # <<>> /\ IsSpace(s[Len(s)]) THEN RStrip(SubSeq(s, 1, Len(s) - 1)) ELSE s

\* str.strip()
Strip(s) == RStrip(LStrip(s))

\* str.split(): the maximal runs of non-space characters of s from position k on
RECURSIVE SplitFrom(_, _, _)
SplitFrom(s, k, cur) ==
    IF k > Len(s)
    THEN IF cur = <<>> THEN <<>> ELSE <<cur>>
    ELSE IF IsSpace(s[k])
         THEN IF cur = <<>>
              THEN SplitFrom(s, k + 1, <<>>)
              ELSE <<cur>> \o SplitFrom(s, k + 1, <<>>)
         ELSE SplitFrom(s, k + 1, Append(cur, s[k]))

Split(s) == SplitFrom(s, 1, <<>>)

\* " ".join(words)
RECURSIVE Join(_)
Join(words) ==
    IF words = <<>> THEN <<>>
    ELSE IF Len(words) = 1 THEN words[1]
    ELSE words[1] \o <<" ">> \o Join(Tail(words))

\* normalize(s) = " ".join((s or "").strip().lower().split())
normalize(s) == Join(Split(LowerStr(Strip(s))))

(* ---------------- the strings of the model ---------------- *)
StrSale == <<"S", "a", "l", "e">>
StrSaleLoose == <<" ", "S", "A", "L", "E">>
StrPI == <<"P", "r", "i", "c", "e", " ", "I", "n", "c", "r", "e", "a", "s", "e">>
StrPILoose == <<"p", "r", "i", "c", "e", " ", " ", "I", "n", "c", "r", "e", "a", "s", "e">>
StrOther == <<"O", "t", "h", "e", "r">>
NormSale == <<"s", "a", "l", "e">>
NormPI == <<"p", "r", "i", "c", "e", " ", "i", "n", "c", "r", "e", "a", "s", "e">>

EntryTypes == {StrSale, StrSaleLoose, StrPI, StrPILoose, StrOther}

\* raw vendor strings of the rows aggregate_by_vendor is called on
Vendors == {<<"A">>, <<"a">>}

(* ---------------- data models ---------------- *)
\* RetailPromoRow
RowSet ==
    [vendor : Vendors, entry_type : EntryTypes, start_date : Days, end_date : OptDays]

\* VendorPlan(vendor=v): all eight dates None
VendorPlan(v) ==
    [vendor |-> v,
     sale_display_start |-> None, sale_display_end |-> None,
     pi_display_start |-> None, pi_display_end |-> None,
     sale_real_start |-> None, sale_real_end |-> None,
     pi_real_start |-> None, pi_real_end |-> None]

(* ---------------- aggregation ---------------- *)
\* faulty variant: the price increase window starts X days early instead of Y
compute_display_window_x(row, px, py, pz) ==
    LET t == normalize(row.entry_type) IN
    IF t = NormSale
    THEN <<row.start_date - px,
           IF IsNone(row.end_date) THEN row.start_date ELSE Val(row.end_date)>>
    ELSE IF t = NormPI
    THEN <<row.start_date - px,
           IF ~IsNone(row.end_date) THEN Val(row.end_date) ELSE row.start_date + pz>>
    ELSE <<row.start_date, row.start_date>>

compute_display_window(row, px, py, pz) ==
    LET t == normalize(row.entry_type) IN
    IF t = NormSale
    THEN <<row.start_date - px,
           IF IsNone(row.end_date) THEN row.start_date ELSE Val(row.end_date)>>
    ELSE IF t = NormPI
    THEN <<row.start_date - py,
           IF ~IsNone(row.end_date) THEN Val(row.end_date) ELSE row.start_date + pz>>
    ELSE <<row.start_date, row.start_date>>

\* mutants: the new value replaces the current one
MergeMinLast(cur, new) == Some(new)
MergeMaxLast(cur, new) == Some(new)

\* "new if cur is None else min(cur, new)" and the same with max
MergeMin(cur, new) == IF IsNone(cur) THEN Some(new) ELSE Some(Min2(Val(cur), new))
MergeMax(cur, new) == IF IsNone(cur) THEN Some(new) ELSE Some(Max2(Val(cur), new))

\* the sale branch of the loop body of aggregate_by_vendor
MergeSale(w, r, win) ==
    LET real_end == IF IsNone(r.end_date) THEN r.start_date ELSE Val(r.end_date) IN
    [w EXCEPT !.sale_display_start = MergeMin(@, win[1]),
              !.sale_display_end = MergeMax(@, win[2]),
              !.sale_real_start = MergeMin(@, r.start_date),
              !.sale_real_end = MergeMax(@, real_end)]

\* faulty variant: pi_real_end is merged from the end of the display window
MergePISynth(w, r, win) ==
    [w EXCEPT !.pi_display_start = MergeMin(@, win[1]),
              !.pi_display_end = MergeMax(@, win[2]),
              !.pi_real_start = MergeMin(@, r.start_date),
              !.pi_real_end = MergeMax(@, win[2])]

\* the price increase branch of the loop body of aggregate_by_vendor
MergePI(w, r, win) ==
    [w EXCEPT !.pi_display_start = MergeMin(@, win[1]),
              !.pi_display_end = MergeMax(@, win[2]),
              !.pi_real_start = MergeMin(@, r.start_date),
              !.pi_real_end = IF ~IsNone(r.end_date) THEN MergeMax(@, Val(r.end_date)) ELSE @]

\* by_vendor is the dict of aggregate_by_vendor, kept as the sequence of its
\* values in insertion order (what list(by_vendor.values()) returns)
PlanIndex(bv, v) == {k \in 1..Len(bv) : bv[k].vendor = v}

\* one iteration of "for r in rows" in aggregate_by_vendor
MergeRow(bv, r, px, py, pz) ==
    LET v == r.vendor
        found == PlanIndex(bv, v)
        w == IF found # {} THEN bv[CHOOSE k \in found : TRUE] ELSE VendorPlan(v)
        t == normalize(r.entry_type)
        win == compute_display_window(r, px, py, pz)
        w2 == IF t = NormSale THEN MergeSale(w, r, win)
              ELSE IF t = NormPI THEN MergePI(w, r, win)
              ELSE w
    IN IF found # {}
       THEN [bv EXCEPT ![CHOOSE k \in found : TRUE] = w2]
       ELSE Append(bv, w2)

RECURSIVE FoldRows(_, _, _, _, _)
FoldRows(bv, rs, px, py, pz) ==
    IF rs = <<>> THEN bv
    ELSE FoldRows(MergeRow(bv, Head(rs), px, py, pz), Tail(rs), px, py, pz)

aggregate_by_vendor(rs, px, py, pz) == FoldRows(<<>>, rs, px, py, pz)

(* ---------------- the table and the store ---------------- *)
MaxSkew == 1
MaxRuns == 2
MaxFailures == 1

\* the dates a run can happen on
Todays == Days

StrPITrail == StrPI \o <<" ">>

\* Vendor and EntryType as stored in SM_Retail_Sales (untrimmed)
TableVendors == {<<"A">>, <<"a">>, <<"B", " ">>}
TableEntryTypes == {StrSale, StrPITrail}
TableRowSet ==
    [vendor : TableVendors, entry_type : TableEntryTypes,
     start_date : Days, end_date : OptDays]

RECURSIVE SeqsUpTo(_, _)
SeqsUpTo(S, n) ==
    IF n = 0 THEN {<<>>}
    ELSE LET shorter == SeqsUpTo(S, n - 1) IN
         shorter \cup {Append(q, e) : q \in {t \in shorter : Len(t) = n - 1}, e \in S}

\* Config.MF_SALE_START .. Config.MF_PI_END
MF_SALE_START == "promo_sale_start_date"
MF_SALE_END == "promo_sale_end_date"
MF_PI_START == "promo_pi_start_date"
MF_PI_END == "promo_pi_end_date"
Keys == {MF_SALE_START, MF_SALE_END, MF_PI_START, MF_PI_END}

\* the shop: one collection, titled like vendor A, and three products
Products == {"p1", "p2", "p3"}
Collections == <<[id |-> "c1", title |-> <<"a", " ">>, products |-> <<"p1", "p2">>]>>
Catalog ==
    <<[id |-> "p1", vendor |-> <<"A">>],
      [id |-> "p2", vendor |-> <<"A">>],
      [id |-> "p3", vendor |-> <<"b">>]>>

(* ---------------- Shopify_Add_Banner_Test.py: the date normalizer ---------------- *)
MaxMonthText == 13
MaxDayText == 32

Digits == <<"0", "1", "2", "3", "4", "5", "6", "7", "8", "9">>
IsDigit(c) == \E n \in 1..10 : Digits[n] = c
DigitVal(c) == (CHOOSE n \in 1..10 : Digits[n] = c) - 1

\* the decimal text of n >= 0
RECURSIVE Str(_)
Str(n) == IF n < 10 THEN <<Digits[n + 1]>> ELSE Str(n \div 10) \o <<Digits[(n % 10) + 1]>>

\* the text t, zero-filled on the left to width w
RECURSIVE ZFill(_, _)
ZFill(t, w) == IF Len(t) >= w THEN t ELSE ZFill(<<"0">> \o t, w)

\* the number a text of digits stands for
RECURSIVE DigitsVal(_)
DigitsVal(t) ==
    IF t = <<>> THEN 0
    ELSE DigitsVal(SubSeq(t, 1, Len(t) - 1)) * 10 + DigitVal(t[Len(t)])

\* int(t): blanks around and a sign before the digits are accepted; anything
\* else raises ValueError
ParseInt(t) ==
    LET u == Strip(t)
        signed == u # <<>> /\ u[1] \in {"+", "-"}
        body == IF signed THEN Tail(u) ELSE u
    IN IF body = <<>> \/ \E n \in 1..Len(body) : ~IsDigit(body[n])
       THEN [ok |-> FALSE, val |-> 0]
       ELSE [ok |-> TRUE,
             val |-> IF u[1] = "-" THEN 0 - DigitsVal(body) ELSE DigitsVal(body)]

\* datetime.date(year, m, d) raises ValueError unless the date exists
IsLeap(year) == (year % 4 = 0 /\ year % 100 # 0) \/ year % 400 = 0
DaysInMonth(year, m) ==
    IF m = 2 THEN (IF IsLeap(year) THEN 29 ELSE 28)
    ELSE IF m \in {4, 6, 9, 11} THEN 30 ELSE 31
ValidDate(year, m, d) ==
    /\ year >= 1 /\ year <= 9999
    /\ m >= 1 /\ m <= 12
    /\ d >= 1 /\ d <= DaysInMonth(year, m)

\* faulty variant: the numbers are not zero-filled
isoformat_unfilled(year, m, d) == Str(year) \o <<"-">> \o Str(m) \o <<"-">> \o Str(d)

\* date.isoformat(): YYYY-MM-DD
isoformat(year, m, d) ==
    ZFill(Str(year), 4) \o <<"-">> \o ZFill(Str(m), 2) \o <<"-">> \o ZFill(Str(d), 2)

\* "sep in s" and s.split(sep): empty parts are kept
Contains(t, sep) == \E n \in 1..Len(t) : t[n] = sep
RECURSIVE SplitSepFrom(_, _, _)
SplitSepFrom(t, sep, cur) ==
    IF t = <<>> THEN <<cur>>
    ELSE IF Head(t) = sep THEN <<cur>> \o SplitSepFrom(Tail(t), sep, <<>>)
    ELSE SplitSepFrom(Tail(t), sep, Append(cur, Head(t)))
SplitSep(t, sep) == SplitSepFrom(t, sep, <<>>)

\* what a call gives: the text returned, or the error raised
Returned(t) == [raised |-> "", value |-> t]
RaisedError(e) == [raised |-> e, value |-> <<>>]
Separators == <<".", "/", "-">>

\* "for sep in ['.', '/', '-']" and the raise after it
RECURSIVE ParseSeps(_, _, _)
ParseSeps(t, year, seps) ==
    IF seps = <<>> THEN RaisedError("ValueError")
    ELSE LET parts == SplitSep(t, Head(seps)) IN
         IF Contains(t, Head(seps)) /\ Len(parts) = 2
         THEN LET m == ParseInt(parts[1])
                  d == ParseInt(parts[2])
              IN IF ~m.ok \/ ~d.ok \/ ~ValidDate(year, m.val, d.val)
                 THEN RaisedError("ValueError")
                 ELSE Returned(isoformat(year, m.val, d.val))
         ELSE ParseSeps(t, year, Tail(seps))

\* parse_mm_dd; a default_year of 0 stands for None as well (both are falsy),
\* now_year is datetime.now().year
parse_mm_dd(t, dflt, now_year) ==
    LET s == Strip(t) IN
    IF s = <<>> THEN RaisedError("ValueError")
    ELSE IF Len(s) = 10 /\ s[5] = "-" /\ s[8] = "-" THEN Returned(s)
    ELSE ParseSeps(s, IF dflt # 0 THEN dflt ELSE now_year, Separators)

\* the inputs: month and day texts, plain or zero-filled, around a separator,
\* and texts of other shapes
MonthDayText(m, sep, d, fill) ==
    (IF fill THEN ZFill(Str(m), 2) ELSE Str(m)) \o <<sep>>
    \o (IF fill THEN ZFill(Str(d), 2) ELSE Str(d))
MonthDayTexts ==
    {MonthDayText(m, Separators[k], d, fill) :
        m \in 0..MaxMonthText, k \in 1..3, d \in 0..MaxDayText, fill \in BOOLEAN}
OtherTexts ==
    {<<>>,
     <<" ">>,
     <<"2", "5">>,
     <<"1", ".", "2", ".", "3">>,
     <<"1", "-", "2", "-", "3">>,
     <<"1", "/", "2", "-", "3">>,
     <<"1", ".", "2", "/", "3">>,
     <<"2", ".", "x">>,
     <<"2", ".">>,
     <<".", "5">>,
     <<"2", ".", "-", "5">>,
     <<"-", "2", ".", "5">>,
     <<"+", "2", ".", "5">>,
     <<" ", "2", " ", "/", " ", "5", " ">>,
     <<"2", "0", "2", "4", "-", "0", "2", "-", "0", "5">>,
     <<"2", "0", "2", "4", "-", "0", "2", "-", "3", "0">>,
     <<" ", "2", "0", "2", "4", "-", "0", "2", "-", "0", "5", " ">>,
     <<"a", "b", "c", "d", "-", "e", "f", "-", "g", "h">>,
     <<"2", "0", "2", "4", ".", "0", "2", ".", "0", "5">>,
     <<"0", "0", "0", "2", "-", "0", "5", "-", "0", "1">>}
DateTexts == MonthDayTexts \cup OtherTexts
DefaultYears == {0, 1, 1900, 2023, 2024}
NowYears == {2025, 2026}

VARIABLES
    table,        \* the rows of SM_Retail_Sales
    x, y, z,      \* SALE_PRE_DAYS, PI_PRE_DAYS, PI_POST_DAYS
    meta,         \* the date metafields of every product: key -> value or None
    run,          \* number of the current run of main
    today,        \* datetime.now().date() of the run
    dbToday,      \* CAST(GETDATE() AS date) of the run's query
    dry_run,      \* Config.DRY_RUN of the run
    pc,           \* position of main
    rows,         \* the rows aggregate_by_vendor folds
    ri,           \* index of the next row of "for r in rows"
    by_vendor,    \* the plans folded so far, then vendor_plans
    vi,           \* index of the current plan of "for w in vendor_plans"
    product_ids,  \* the products the current vendor resolved to
    pj,           \* index of the next product of "for pid in product_ids"
    collection_cache, product_cache,
    processed,    \* per product processed in this run: its plan, payload and keys_to_delete
    calls,        \* the external calls made for the product processed last
    nfail,        \* number of external calls that raised in this run
    clean,        \* every run so far was a non-dry-run on the date of the query
                  \* in which no external call raised
    date_in,      \* parse_mm_dd: the argument s
    default_year, \* parse_mm_dd: the argument default_year (0: None)
    now_year,     \* parse_mm_dd: datetime.now().year
    date_out,     \* parse_mm_dd: what the call gave
    retries,      \* graphql: the argument retries
    attempt,      \* graphql: the attempt of "for attempt in range(retries)"
    sent,         \* graphql: the responses of the requests posted so far
    slept,        \* graphql: the delays slept so far, in tenths of a second
    last_err,     \* graphql: last_err
    gql_out       \* graphql: the data returned

vars ==
    <<table, x, y, z, meta, run, today, dbToday, dry_run, pc, rows, ri, by_vendor, vi,
      product_ids, pj, collection_cache, product_cache, processed, calls, nfail,
      clean, date_in, default_year, now_year, date_out, retries, attempt, sent,
      slept, last_err, gql_out>>

dateVars == <<date_in, default_year, now_year, date_out>>
gqlVars == <<retries, attempt, sent, slept, last_err, gql_out>>
mainVars ==
    <<table, x, y, z, meta, run, today, dbToday, dry_run, rows, ri, by_vendor, vi,
      product_ids, pj, collection_cache, product_cache, processed, calls, nfail,
      clean>>

aggVars == <<rows, ri, by_vendor>>
syncVars ==
    <<vi, product_ids, pj, collection_cache, product_cache, processed, calls, nfail,
      clean>>

NoMeta == [p \in Products |-> [k \in Keys |-> None]]
NoCalls ==
    [write_called |-> FALSE, write_failed |-> FALSE, read_called |-> FALSE,
     read_failed |-> FALSE, delete_calls |-> <<>>, delete_failed |-> FALSE]

(* ---------------- the reader ---------------- *)
\* the WHERE clause of fetch_active_today; now is CAST(GETDATE() AS date)
SqlActive(r, now, px, py, pz) ==
    \/ /\ Strip(r.entry_type) = StrSale
       /\ ~IsNone(r.end_date)
       /\ r.start_date - px <= now
       /\ Val(r.end_date) >= now
    \/ /\ Strip(r.entry_type) = StrPI
       /\ r.start_date - py <= now
       /\ (IF IsNone(r.end_date) THEN r.start_date + pz ELSE Val(r.end_date)) >= now

\* the loop "for r in raw" of fetch_active_today
RECURSIVE ReadRows(_)
ReadRows(raw) ==
    IF raw = <<>> THEN <<>>
    ELSE LET r == Head(raw)
             vendor == Strip(r.vendor)
             entry_type == Strip(r.entry_type)
         IN IF vendor = <<>> \/ entry_type = <<>>
            THEN ReadRows(Tail(raw))
            ELSE <<[r EXCEPT !.vendor = vendor, !.entry_type = entry_type]>>
                 \o ReadRows(Tail(raw))

fetch_active_today(tbl, now, px, py, pz) ==
    ReadRows(SelectSeq(tbl, LAMBDA r : SqlActive(r, now, px, py, pz)))

(* ---------------- the Shopify client ---------------- *)
\* the first collection whose normalized title is the normalized vendor, or None
find_collection_by_title_exact(title) ==
    LET hits == {k \in 1..Len(Collections) :
                    normalize(Collections[k].title) = normalize(title)}
    IN IF hits = {} THEN None
       ELSE Some(Collections[CHOOSE k \in hits : \A h \in hits : k <= h])

list_product_ids_in_collection(col) == col.products

RECURSIVE IdsByVendor(_, _)
IdsByVendor(nodes, target) ==
    IF nodes = <<>> THEN <<>>
    ELSE (IF normalize(Head(nodes).vendor) = target THEN <<Head(nodes).id>> ELSE <<>>)
         \o IdsByVendor(Tail(nodes), target)

list_product_ids_by_vendor(vendor) == IdsByVendor(Catalog, normalize(vendor))

\* metafieldsSet: every field of the payload is set on its owner
RECURSIVE metafields_set(_, _, _)
metafields_set(m, pid, payload) ==
    IF payload = <<>> THEN m
    ELSE metafields_set([m EXCEPT ![pid][Head(payload)[1]] = Some(Head(payload)[2])],
                        pid, Tail(payload))

\* faulty variant: an id is returned for every key asked
get_metafield_ids_all(m, pid, keys) ==
    [k \in {keys[n] : n \in 1..Len(keys)} |-> TRUE]

\* get_metafield_ids: for every key asked, whether the product has the field
get_metafield_ids(m, pid, keys) ==
    [k \in {keys[n] : n \in 1..Len(keys)} |-> ~IsNone(m[pid][k])]

metafield_delete(m, pid, k) == [m EXCEPT ![pid][k] = None]

(* ---------------- the decisions of the sync loop ---------------- *)
sale_should_exist(w, t) ==
    /\ ~IsNone(w.sale_display_start)
    /\ ~IsNone(w.sale_display_end)
    /\ Val(w.sale_display_start) <= t
    /\ t <= Val(w.sale_display_end)

pi_should_exist(w, t) ==
    /\ ~IsNone(w.pi_display_start)
    /\ ~IsNone(w.pi_display_end)
    /\ Val(w.pi_display_start) <= t
    /\ t <= Val(w.pi_display_end)

\* faulty variant: the dates of the display window are written
SalePayloadDisplay(w, t) ==
    IF sale_should_exist(w, t) /\ ~IsNone(w.sale_real_start) /\ ~IsNone(w.sale_real_end)
    THEN <<<<MF_SALE_START, Val(w.sale_display_start)>>,
           <<MF_SALE_END, Val(w.sale_display_end)>>>>
    ELSE <<>>

\* the payload of one product: a sequence of <<key, value>>
SalePayload(w, t) ==
    IF sale_should_exist(w, t) /\ ~IsNone(w.sale_real_start) /\ ~IsNone(w.sale_real_end)
    THEN <<<<MF_SALE_START, Val(w.sale_real_start)>>, <<MF_SALE_END, Val(w.sale_real_end)>>>>
    ELSE <<>>

\* faulty variant: without a real end, the end of the display window is written
PIPayloadWithEnd(w, t) ==
    IF pi_should_exist(w, t) /\ ~IsNone(w.pi_real_start)
    THEN <<<<MF_PI_START, Val(w.pi_real_start)>>,
           <<MF_PI_END, IF ~IsNone(w.pi_real_end) THEN Val(w.pi_real_end)
                        ELSE Val(w.pi_display_end)>>>>
    ELSE <<>>

PIPayload(w, t) ==
    IF pi_should_exist(w, t) /\ ~IsNone(w.pi_real_start)
    THEN <<<<MF_PI_START, Val(w.pi_real_start)>>>>
         \o (IF ~IsNone(w.pi_real_end) THEN <<<<MF_PI_END, Val(w.pi_real_end)>>>> ELSE <<>>)
    ELSE <<>>

BuildPayload(w, t) == SalePayload(w, t) \o PIPayload(w, t)

KeysToDelete(w, t) ==
    (IF ~sale_should_exist(w, t) THEN <<MF_SALE_START, MF_SALE_END>> ELSE <<>>)
    \o (IF ~pi_should_exist(w, t) THEN <<MF_PI_START, MF_PI_END>> ELSE <<>>)

\* "for k in keys_to_delete": delete what id_map has an id for; the delete
\* call number failAt (counted from 1, 0 = none) raises and ends the loop.
\* st = [meta, delete_calls, delete_failed]
RECURSIVE DeleteLoop(_, _, _, _, _)
DeleteLoop(st, pid, keys, id_map, failAt) ==
    IF keys = <<>> THEN st
    ELSE LET k == Head(keys) IN
         IF ~id_map[k] THEN DeleteLoop(st, pid, Tail(keys), id_map, failAt)
         ELSE LET called == Append(st.delete_calls, k) IN
              IF Len(called) = failAt
              THEN [st EXCEPT !.delete_calls = called, !.delete_failed = TRUE]
              ELSE DeleteLoop([st EXCEPT !.meta = metafield_delete(@, pid, k),
                                         !.delete_calls = called],
                              pid, Tail(keys), id_map, failAt)

\* faulty variant: a write that raises ends the work on the product
WriteThenDeleteAbort(m, pid, payload, keys, wfail, rfail, failAt) ==
    LET failed == payload # <<>> /\ wfail
        written == IF payload # <<>> /\ ~wfail THEN metafields_set(m, pid, payload) ELSE m
        read_called == keys # <<>> /\ ~failed
        st0 == [meta |-> written, delete_calls |-> <<>>, delete_failed |-> FALSE]
        st == IF read_called /\ ~rfail
              THEN DeleteLoop(st0, pid, keys, get_metafield_ids(written, pid, keys), failAt)
              ELSE st0
    IN [meta |-> st.meta,
        calls |-> [write_called |-> payload # <<>>,
                   write_failed |-> failed,
                   read_called |-> read_called,
                   read_failed |-> read_called /\ rfail,
                   delete_calls |-> st.delete_calls,
                   delete_failed |-> st.delete_failed]]

\* the "else" branch of "if Config.DRY_RUN" for one product: the write, then
\* the deletes; wfail and rfail say whether metafields_set and
\* get_metafield_ids raise.  Result: [meta, calls]
WriteThenDelete(m, pid, payload, keys, wfail, rfail, failAt) ==
    LET written == IF payload # <<>> /\ ~wfail THEN metafields_set(m, pid, payload) ELSE m
        read_called == keys # <<>>
        st0 == [meta |-> written, delete_calls |-> <<>>, delete_failed |-> FALSE]
        st == IF read_called /\ ~rfail
              THEN DeleteLoop(st0, pid, keys, get_metafield_ids(written, pid, keys), failAt)
              ELSE st0
    IN [meta |-> st.meta,
        calls |-> [write_called |-> payload # <<>>,
                   write_failed |-> payload # <<>> /\ wfail,
                   read_called |-> read_called,
                   read_failed |-> read_called /\ rfail,
                   delete_calls |-> st.delete_calls,
                   delete_failed |-> st.delete_failed]]

\* faulty variant: the dry run makes the calls of a run that is not dry
DryRunBranchCalls(m, pid, payload, keys) ==
    WriteThenDelete(m, pid, payload, keys, FALSE, FALSE, 0)

\* the branch "if Config.DRY_RUN" for one product: the payload and the keys
\* are printed, no call is made.  Result: [meta, calls]
DryRunBranch(m, pid, payload, keys) == [meta |-> m, calls |-> NoCalls]

\* the number of calls of one product that raised
Raised(c) ==
    (IF c.write_failed THEN 1 ELSE 0) + (IF c.read_failed THEN 1 ELSE 0)
    + (IF c.delete_failed THEN 1 ELSE 0)

\* where main is after the products from position j of plan v: the next
\* product, the next plan with products to resolve, or the end of the run
AfterProduct(j, ids, v, plans) ==
    IF j <= Len(ids) THEN [pc |-> "products", vi |-> v, pj |-> j]
    ELSE IF v + 1 <= Len(plans) THEN [pc |-> "plans", vi |-> v + 1, pj |-> 1]
    ELSE [pc |-> "done", vi |-> v + 1, pj |-> 1]

(* ---------------- initial states ---------------- *)
NoResult == [raised |-> "", value |-> <<>>]
NoResponse == [status |-> 0, errors |-> FALSE]

\* parse_mm_dd is not being called
DateIdle ==
    /\ date_in = <<>> /\ default_year = 0 /\ now_year = 0 /\ date_out = NoResult

\* graphql is not being called
GqlIdle ==
    /\ retries = 0 /\ attempt = 0 /\ sent = <<>> /\ slept = <<>>
    /\ last_err = "None" /\ gql_out = NoResponse

\* main is not running
MainIdle ==
    /\ table = <<>>
    /\ x = 0 /\ y = 0 /\ z = 0
    /\ meta = NoMeta
    /\ run = 0
    /\ today = 1 /\ dbToday = 1 /\ dry_run = FALSE
    /\ rows = <<>> /\ ri = 1 /\ by_vendor = <<>>
    /\ vi = 1 /\ product_ids = <<>> /\ pj = 1
    /\ collection_cache = <<>> /\ product_cache = <<>>
    /\ processed = <<>> /\ calls = NoCalls /\ nfail = 0 /\ clean = TRUE

Tables == SeqsUpTo(TableRowSet, MaxRows)

Init ==
    /\ table \in Tables
    /\ x \in Offsets /\ y = x /\ z = x
    /\ meta = NoMeta
    /\ run = 0
    /\ today = 1 /\ dbToday = 1 /\ dry_run = FALSE
    /\ pc = "idle"
    /\ rows = <<>> /\ ri = 1 /\ by_vendor = <<>>
    /\ vi = 1 /\ product_ids = <<>> /\ pj = 1
    /\ collection_cache = <<>> /\ product_cache = <<>>
    /\ processed = <<>> /\ calls = NoCalls /\ nfail = 0 /\ clean = TRUE
    /\ DateIdle /\ GqlIdle

\* aggregate_by_vendor called on any list of rows
InitAgg ==
    /\ rows \in SeqsUpTo(RowSet, MaxRows)
    /\ x \in Offsets /\ y \in Offsets /\ z \in Offsets
    /\ table = <<>>
    /\ meta = NoMeta
    /\ run = 0
    /\ today = 1 /\ dbToday = 1 /\ dry_run = FALSE
    /\ pc = "aggregate"
    /\ ri = 1 /\ by_vendor = <<>>
    /\ vi = 1 /\ product_ids = <<>> /\ pj = 1
    /\ collection_cache = <<>> /\ product_cache = <<>>
    /\ processed = <<>> /\ calls = NoCalls /\ nfail = 0 /\ clean = TRUE
    /\ DateIdle /\ GqlIdle

(* ---------------- actions ---------------- *)
\* main up to "for w in vendor_plans": the clock is read, the rows are
\* fetched ("if not rows: return") and folded into the plans
RunStart ==
    /\ pc \in {"idle", "done", "crashed"}
    /\ run < MaxRuns
    /\ run' = run + 1
    /\ \E t \in Todays, s \in (0 - MaxSkew)..MaxSkew, d \in BOOLEAN :
          /\ run > 0 => t > today
          /\ today' = t
          /\ dbToday' = t + s
          /\ dry_run' = d
          /\ clean' = (clean /\ ~d /\ s = 0)
          /\ rows' = fetch_active_today(table, t + s, x, y, z)
    /\ by_vendor' = aggregate_by_vendor(rows', x, y, z)
    /\ ri' = Len(rows') + 1
    /\ pc' = IF rows' = <<>> THEN "done" ELSE "plans"
    /\ vi' = 1 /\ product_ids' = <<>> /\ pj' = 1
    /\ collection_cache' = <<>> /\ product_cache' = <<>>
    /\ processed' = <<>> /\ calls' = NoCalls /\ nfail' = 0
    /\ UNCHANGED <<table, x, y, z, meta>>
    /\ UNCHANGED <<dateVars, gqlVars>>

\* one iteration of "for r in rows" of aggregate_by_vendor
AggStep ==
    /\ pc = "aggregate"
    /\ ri <= Len(rows)
    /\ by_vendor' = MergeRow(by_vendor, rows[ri], x, y, z)
    /\ ri' = ri + 1
    /\ UNCHANGED <<table, x, y, z, meta, run, today, dbToday, dry_run, pc, rows>>
    /\ UNCHANGED syncVars
    /\ UNCHANGED <<dateVars, gqlVars>>

\* "return list(by_vendor.values())"
AggReturn ==
    /\ pc = "aggregate"
    /\ ri > Len(rows)
    /\ pc' = "plans"
    /\ UNCHANGED <<table, x, y, z, meta, run, today, dbToday, dry_run>>
    /\ UNCHANGED aggVars
    /\ UNCHANGED syncVars
    /\ UNCHANGED <<dateVars, gqlVars>>

\* a cache is a sequence of <<key, value>>
CacheHas(cache, k) == \E n \in 1..Len(cache) : cache[n][1] = k
CacheGet(cache, k) == cache[CHOOSE n \in 1..Len(cache) : cache[n][1] = k][2]

\* the head of "for w in vendor_plans": the vendor is resolved to its
\* products, through the two caches
VendorResolve ==
    /\ pc = "plans"
    /\ vi <= Len(by_vendor)
    /\ LET vendor == by_vendor[vi].vendor
           col == IF CacheHas(collection_cache, vendor)
                  THEN CacheGet(collection_cache, vendor)
                  ELSE find_collection_by_title_exact(vendor)
           cache_key == <<vendor, IF ~IsNone(col) THEN "collection" ELSE "vendor">>
           ids == IF CacheHas(product_cache, cache_key)
                  THEN CacheGet(product_cache, cache_key)
                  ELSE IF ~IsNone(col)
                       THEN list_product_ids_in_collection(Val(col))
                       ELSE list_product_ids_by_vendor(vendor)
           next == AfterProduct(1, ids, vi, by_vendor)
       IN /\ collection_cache' = IF CacheHas(collection_cache, vendor)
                                 THEN collection_cache
                                 ELSE Append(collection_cache, <<vendor, col>>)
          /\ product_cache' = IF CacheHas(product_cache, cache_key)
                              THEN product_cache
                              ELSE Append(product_cache, <<cache_key, ids>>)
          /\ product_ids' = ids
          /\ pc' = next.pc /\ vi' = next.vi /\ pj' = next.pj
    /\ UNCHANGED <<table, x, y, z, meta, run, today, dbToday, dry_run>>
    /\ UNCHANGED aggVars
    /\ UNCHANGED <<processed, calls, nfail, clean>>
    /\ UNCHANGED <<dateVars, gqlVars>>

\* a lookup of the collection or of the products raises: nothing catches it
\* and main ends
VendorResolveError ==
    /\ pc = "plans"
    /\ vi <= Len(by_vendor)
    /\ nfail < MaxFailures
    /\ nfail' = nfail + 1
    /\ pc' = "crashed"
    /\ clean' = FALSE
    /\ UNCHANGED <<table, x, y, z, meta, run, today, dbToday, dry_run>>
    /\ UNCHANGED aggVars
    /\ UNCHANGED <<vi, product_ids, pj, collection_cache, product_cache, processed, calls>>
    /\ UNCHANGED <<dateVars, gqlVars>>

\* the body of "for pid in product_ids" when Config.DRY_RUN
ProductDryRun ==
    /\ pc = "products"
    /\ pj <= Len(product_ids)
    /\ dry_run
    /\ LET w == by_vendor[vi]
           pid == product_ids[pj]
           payload == BuildPayload(w, today)
           keys == KeysToDelete(w, today)
           res == DryRunBranch(meta, pid, payload, keys)
           next == AfterProduct(pj + 1, product_ids, vi, by_vendor)
       IN /\ meta' = res.meta
          /\ calls' = res.calls
          /\ processed' = Append(processed,
                 [plan |-> vi, pid |-> pid, payload |-> payload, keys_to_delete |-> keys])
          /\ pc' = next.pc /\ vi' = next.vi /\ pj' = next.pj
    /\ UNCHANGED <<table, x, y, z, run, today, dbToday, dry_run, nfail, clean>>
    /\ UNCHANGED aggVars
    /\ UNCHANGED <<product_ids, collection_cache, product_cache>>
    /\ UNCHANGED <<dateVars, gqlVars>>

\* the body of "for pid in product_ids" otherwise; any of the external
\* calls may raise
ProductSync ==
    /\ pc = "products"
    /\ pj <= Len(product_ids)
    /\ ~dry_run
    /\ LET w == by_vendor[vi]
           pid == product_ids[pj]
           payload == BuildPayload(w, today)
           keys == KeysToDelete(w, today)
           next == AfterProduct(pj + 1, product_ids, vi, by_vendor)
       IN /\ \E wfail \in (IF payload # <<>> THEN BOOLEAN ELSE {FALSE}),
                rfail \in (IF keys # <<>> THEN BOOLEAN ELSE {FALSE}),
                failAt \in 0..Len(keys) :
                LET res == WriteThenDelete(meta, pid, payload, keys, wfail, rfail, failAt)
                IN /\ failAt <= Len(res.calls.delete_calls)
                   /\ meta' = res.meta
                   /\ calls' = res.calls
                   /\ nfail' = nfail + Raised(res.calls)
                   /\ nfail' <= MaxFailures
                   /\ clean' = (clean /\ Raised(res.calls) = 0)
          /\ processed' = Append(processed,
                 [plan |-> vi, pid |-> pid, payload |-> payload, keys_to_delete |-> keys])
          /\ pc' = next.pc /\ vi' = next.vi /\ pj' = next.pj
    /\ UNCHANGED <<table, x, y, z, run, today, dbToday, dry_run>>
    /\ UNCHANGED aggVars
    /\ UNCHANGED <<product_ids, collection_cache, product_cache>>
    /\ UNCHANGED <<dateVars, gqlVars>>

(* ---------------- specifications ---------------- *)
Next ==
    \/ RunStart
    \/ VendorResolve
    \/ VendorResolveError
    \/ ProductDryRun
    \/ ProductSync

Spec == Init /\ [][Next]_vars

NextAgg == AggStep \/ AggReturn

SpecAgg == InitAgg /\ [][NextAgg]_vars

\* parse_mm_dd called on any text of DateTexts
InitDate ==
    /\ pc = "parse_mm_dd"
    /\ date_in \in DateTexts
    /\ default_year \in DefaultYears
    /\ now_year \in NowYears
    /\ date_out = NoResult
    /\ MainIdle /\ GqlIdle

\* the call of parse_mm_dd returns or raises
ParseCall ==
    /\ pc = "parse_mm_dd"
    /\ date_out' = parse_mm_dd(date_in, default_year, now_year)
    /\ pc' = "parsed"
    /\ UNCHANGED <<date_in, default_year, now_year>>
    /\ UNCHANGED <<mainVars, gqlVars>>

NextDate == ParseCall

SpecDate == InitDate /\ [][NextDate]_vars

(* ---------------- ShopifyClient.graphql ---------------- *)
MaxRetries == 4

\* what requests.post gives: status 0 stands for an exception of the request
\* (timeout, connection), errors for a body with "errors"
TempStatuses == {429, 500, 502, 503, 504}
Responses ==
    {[status |-> 0, errors |-> FALSE], [status |-> 200, errors |-> FALSE],
     [status |-> 200, errors |-> TRUE], [status |-> 404, errors |-> FALSE],
     [status |-> 501, errors |-> FALSE]}
    \cup {[status |-> st, errors |-> FALSE] : st \in TempStatuses}

\* faulty variant: the same delay after every attempt
TempDelayFlat(n) == 12

\* time.sleep(1.2 + attempt * 1.0) and time.sleep(1.0 + attempt * 1.0), in
\* tenths of a second
TempDelay(n) == 12 + n * 10
ErrorDelay(n) == 10 + n * 10

\* the exception the body of the try raises for a response, "" if none
RaisedBy(resp) ==
    IF resp.status = 0 THEN "RequestException"
    ELSE IF resp.status >= 400 THEN "HTTPError"
    ELSE IF resp.errors THEN "GraphQL errors"
    ELSE ""

\* graphql called with any number of retries
InitGraphql ==
    /\ pc = "graphql"
    /\ retries \in 0..MaxRetries
    /\ attempt = 0
    /\ sent = <<>> /\ slept = <<>>
    /\ last_err = "None"
    /\ gql_out = NoResponse
    /\ MainIdle /\ DateIdle

\* one iteration of "for attempt in range(retries)"
GraphqlAttempt ==
    /\ pc = "graphql"
    /\ attempt < retries
    /\ \E resp \in Responses :
          /\ sent' = Append(sent, resp)
          /\ IF resp.status \in TempStatuses
             THEN /\ last_err' = "Temporary Shopify error"
                  /\ slept' = Append(slept, TempDelay(attempt))
                  /\ attempt' = attempt + 1
                  /\ UNCHANGED <<pc, gql_out>>
             ELSE IF RaisedBy(resp) # ""
             THEN /\ last_err' = RaisedBy(resp)
                  /\ slept' = Append(slept, ErrorDelay(attempt))
                  /\ attempt' = attempt + 1
                  /\ UNCHANGED <<pc, gql_out>>
             ELSE /\ gql_out' = resp
                  /\ pc' = "graphql_returned"
                  /\ UNCHANGED <<last_err, slept, attempt>>
    /\ UNCHANGED retries
    /\ UNCHANGED <<mainVars, dateVars>>

\* the loop is over: "raise RuntimeError(Shopify GraphQL failed after retries)"
GraphqlRaise ==
    /\ pc = "graphql"
    /\ attempt >= retries
    /\ pc' = "graphql_raised"
    /\ UNCHANGED <<mainVars, dateVars, gqlVars>>

NextGraphql == GraphqlAttempt \/ GraphqlRaise

\* the call runs on: no step of it waits for anything but a request with a
\* timeout or a sleep
SpecGraphql == InitGraphql /\ [][NextGraphql]_vars /\ WF_vars(NextGraphql)

(* ---------------- what the claims speak of ---------------- *)
\* the entry types that are Sale rows and PriceIncrease rows
SaleTypes == {StrSale, StrSaleLoose}
PITypes == {StrPI, StrPILoose, StrPITrail}

SetMin(S) == CHOOSE m \in S : \A e \in S : m <= e
SetMax(S) == CHOOSE m \in S : \A e \in S : m >= e
OptMin(S) == IF S = {} THEN None ELSE Some(SetMin(S))
OptMax(S) == IF S = {} THEN None ELSE Some(SetMax(S))

\* the rule table of the display window, with the offsets X, Y, Z
RuleStart(r, ox, oy) ==
    IF r.entry_type \in SaleTypes THEN r.start_date - ox ELSE r.start_date - oy
RuleEnd(r, oz) ==
    IF ~IsNone(r.end_date) THEN Val(r.end_date)
    ELSE IF r.entry_type \in SaleTypes THEN r.start_date ELSE r.start_date + oz

\* the rows folded so far
Folded == SubSeq(rows, 1, ri - 1)
RowsOf(rs, v, types) == {k \in 1..Len(rs) : rs[k].vendor = v /\ rs[k].entry_type \in types}
VendorsOf(rs) == {rs[k].vendor : k \in 1..Len(rs)}

\* C1: compute_display_window follows the rule table for every row folded and
\* all offsets: a Sale row gives (startDate - X, endDate if present else
\* startDate), a PriceIncrease row (startDate - Y, endDate if present else
\* startDate + Z); the Sale result does not depend on Y or Z, and the
\* PriceIncrease result does not depend on X, nor on Z when endDate is present.
C1_WindowRule ==
    \A k \in {ri - 1} \cap (1..Len(rows)) :
        LET r == rows[k]
            win == compute_display_window(r, x, y, z)
        IN /\ r.entry_type \in SaleTypes =>
                /\ win[1] = r.start_date - x
                /\ win[2] = (IF IsNone(r.end_date) THEN r.start_date ELSE Val(r.end_date))
                /\ \A oy \in Offsets, oz \in Offsets :
                      compute_display_window(r, x, oy, oz) = win
           /\ r.entry_type \in PITypes =>
                /\ win[1] = r.start_date - y
                /\ win[2] = (IF IsNone(r.end_date) THEN r.start_date + z
                             ELSE Val(r.end_date))
                /\ \A ox \in Offsets : compute_display_window(r, ox, y, z) = win
                /\ ~IsNone(r.end_date) =>
                      \A ox \in Offsets, oz \in Offsets :
                          compute_display_window(r, ox, y, oz) = win

\* a row of each type has been folded with an offset that moves its window
C1_Witness ==
    /\ ri > Len(rows)
    /\ x # y /\ z > 0
    /\ \E k \in 1..Len(rows) : rows[k].entry_type = StrSaleLoose /\ IsNone(rows[k].end_date)
    /\ \E k \in 1..Len(rows) : rows[k].entry_type = StrPILoose /\ IsNone(rows[k].end_date)

\* C2: aggregate_by_vendor returns exactly one plan per distinct raw vendor
\* string; per vendor and type, displayStart is the minimum and displayEnd the
\* maximum of the rows' display windows, realStart the minimum of their
\* startDates, and each is absent exactly when the vendor has no row of the type.
C2_MergedPlans ==
    pc = "plans" =>
        /\ {by_vendor[n].vendor : n \in 1..Len(by_vendor)} = VendorsOf(rows)
        /\ Len(by_vendor) = Cardinality(VendorsOf(rows))
        /\ \A n \in 1..Len(by_vendor) :
              LET w == by_vendor[n]
                  sale == RowsOf(rows, w.vendor, SaleTypes)
                  pi == RowsOf(rows, w.vendor, PITypes)
              IN /\ w.sale_display_start = OptMin({RuleStart(rows[k], x, y) : k \in sale})
                 /\ w.sale_display_end = OptMax({RuleEnd(rows[k], z) : k \in sale})
                 /\ w.sale_real_start = OptMin({rows[k].start_date : k \in sale})
                 /\ w.pi_display_start = OptMin({RuleStart(rows[k], x, y) : k \in pi})
                 /\ w.pi_display_end = OptMax({RuleEnd(rows[k], z) : k \in pi})
                 /\ w.pi_real_start = OptMin({rows[k].start_date : k \in pi})

\* two Sale rows of one vendor, the later one starting and ending later, have
\* been merged into a window that is neither row's
C2_Witness ==
    /\ pc = "plans"
    /\ Len(rows) = 2
    /\ rows[1].vendor = rows[2].vendor
    /\ rows[1].entry_type \in SaleTypes /\ rows[2].entry_type \in SaleTypes
    /\ rows[2].start_date < rows[1].start_date
    /\ ~IsNone(rows[1].end_date) /\ ~IsNone(rows[2].end_date)
    /\ Val(rows[2].end_date) < Val(rows[1].end_date)
    /\ by_vendor[1].sale_display_start = Some(rows[2].start_date - x)
    /\ by_vendor[1].sale_display_end = rows[1].end_date

PlanOf(bv, v) == bv[CHOOSE n \in 1..Len(bv) : bv[n].vendor = v]

\* C3: for every permutation of the row list, aggregate_by_vendor gives every
\* vendor a plan with the same eight dates.
C3_OrderIndependent ==
    pc = "plans" =>
        \A f \in Permutations(1..Len(rows)) :
            LET other == aggregate_by_vendor([k \in 1..Len(rows) |-> rows[f[k]]], x, y, z)
            IN /\ Len(other) = Len(by_vendor)
               /\ \A v \in VendorsOf(rows) : PlanOf(other, v) = PlanOf(by_vendor, v)

\* two different rows of one vendor and type were folded, the second with the
\* earlier start and the earlier end
C3_Witness ==
    /\ pc = "plans"
    /\ Len(rows) = 2
    /\ rows[1].vendor = rows[2].vendor
    /\ rows[1].entry_type \in PITypes /\ rows[2].entry_type \in PITypes
    /\ rows[2].start_date < rows[1].start_date
    /\ IsNone(rows[1].end_date) /\ ~IsNone(rows[2].end_date)
    /\ z > 0

\* C4: after any number of rows folded, the PriceIncrease realEnd of a plan is
\* present exactly when a PriceIncrease row of the vendor has an endDate, and is
\* then the maximum endDate of those rows: a row with no end date never puts
\* its startDate + Z fallback there.
C4_RealEndNotSynthesized ==
    pc \in {"aggregate", "plans"} =>
        \A n \in 1..Len(by_vendor) :
            LET w == by_vendor[n]
                ended == {k \in RowsOf(Folded, w.vendor, PITypes) : ~IsNone(rows[k].end_date)}
            IN w.pi_real_end = OptMax({Val(rows[k].end_date) : k \in ended})

\* a PriceIncrease row with an end date and one without, whose fallback end
\* is later than that end date, have both been folded
C4_Witness ==
    /\ pc = "plans"
    /\ Len(rows) = 2
    /\ rows[1].vendor = rows[2].vendor
    /\ rows[1].entry_type \in PITypes /\ rows[2].entry_type \in PITypes
    /\ ~IsNone(rows[1].end_date) /\ IsNone(rows[2].end_date)
    /\ rows[2].start_date + z > Val(rows[1].end_date)
    /\ by_vendor[1].pi_real_end = rows[1].end_date
    /\ by_vendor[1].pi_display_end = Some(rows[2].start_date + z)

(* ---------------- the sync loop ---------------- *)
HasKey(payload, k) == \E n \in 1..Len(payload) : payload[n][1] = k
ValueOf(payload, k) == payload[CHOOSE n \in 1..Len(payload) : payload[n][1] = k][2]
InSeq(q, e) == \E n \in 1..Len(q) : q[n] = e
LastProcessed == processed[Len(processed)]

\* today is inside the window [ds, de], both present
InWindow(ds, de, t) == ~IsNone(ds) /\ ~IsNone(de) /\ Val(ds) <= t /\ t <= Val(de)
SaleIn(w) == InWindow(w.sale_display_start, w.sale_display_end, today)
PIIn(w) == InWindow(w.pi_display_start, w.pi_display_end, today)

\* the real dates of the rows of this run
RealStart(v, types) == SetMin({rows[k].start_date : k \in RowsOf(rows, v, types)})
RealEnd(v, types) ==
    SetMax({Val(rows[k].end_date) :
               k \in {j \in RowsOf(rows, v, types) : ~IsNone(rows[j].end_date)}})

\* C5: for every product processed, the Sale start and end fields are in the
\* write payload exactly when the Sale displayStart and displayEnd are both
\* present and displayStart <= today <= displayEnd, and the values written are
\* the real start and end dates of the vendor's Sale rows, not the display dates.
C5_SaleWrite ==
    /\ \A n \in 1..Len(processed) :
          LET e == processed[n]
              w == by_vendor[e.plan]
          IN /\ HasKey(e.payload, MF_SALE_START) <=> SaleIn(w)
             /\ HasKey(e.payload, MF_SALE_END) <=> SaleIn(w)
             /\ SaleIn(w) =>
                   /\ ValueOf(e.payload, MF_SALE_START) = RealStart(w.vendor, SaleTypes)
                   /\ ValueOf(e.payload, MF_SALE_END) = RealEnd(w.vendor, SaleTypes)
    /\ (processed # <<>> /\ calls.write_called /\ ~calls.write_failed
        /\ SaleIn(by_vendor[LastProcessed.plan])) =>
          LET w == by_vendor[LastProcessed.plan] IN
          /\ meta[LastProcessed.pid][MF_SALE_START] = Some(RealStart(w.vendor, SaleTypes))
          /\ meta[LastProcessed.pid][MF_SALE_END] = Some(RealEnd(w.vendor, SaleTypes))

\* a product was written on the first day of a display window that starts
\* before the sale does
C5_Witness ==
    /\ processed # <<>>
    /\ calls.write_called /\ ~calls.write_failed
    /\ LET w == by_vendor[LastProcessed.plan] IN
       /\ SaleIn(w)
       /\ today = Val(w.sale_display_start)
       /\ today < Val(w.sale_real_start)
       /\ meta[LastProcessed.pid][MF_SALE_START] = w.sale_real_start
       /\ meta[LastProcessed.pid][MF_SALE_END] = w.sale_real_end

\* C6: for every product processed while the PriceIncrease window contains
\* today, the payload has the PriceIncrease start field with the real start
\* date, and the end field exactly when the plan's realEnd is present; for a
\* vendor whose PriceIncrease rows all lack an end date the payload has the
\* start field only.
C6_PIWrite ==
    \A n \in 1..Len(processed) :
        LET e == processed[n]
            w == by_vendor[e.plan]
            ended == {k \in RowsOf(rows, w.vendor, PITypes) : ~IsNone(rows[k].end_date)}
        IN /\ PIIn(w) =>
                /\ HasKey(e.payload, MF_PI_START)
                /\ ValueOf(e.payload, MF_PI_START) = RealStart(w.vendor, PITypes)
                /\ HasKey(e.payload, MF_PI_END) <=> ~IsNone(w.pi_real_end)
                /\ HasKey(e.payload, MF_PI_END) =>
                      ValueOf(e.payload, MF_PI_END) = Val(w.pi_real_end)
           /\ ended = {} => ~HasKey(e.payload, MF_PI_END)

\* a product of a vendor whose only price increase has no end date was
\* written on the last day of the fallback window
C6_Witness ==
    /\ processed # <<>>
    /\ calls.write_called /\ ~calls.write_failed
    /\ z > 0
    /\ LET w == by_vendor[LastProcessed.plan] IN
       /\ PIIn(w)
       /\ IsNone(w.pi_real_end)
       /\ today = Val(w.pi_real_start) + z
       /\ LastProcessed.payload = <<<<MF_PI_START, Val(w.pi_real_start)>>>>
       /\ meta[LastProcessed.pid][MF_PI_START] = w.pi_real_start
       /\ meta[LastProcessed.pid][MF_PI_END] = None

\* what C7 says of one type, with keys ks and ke, for the product just processed
C7_Type(e, inside, ks, ke) ==
    ~inside =>
        /\ InSeq(e.keys_to_delete, ks) /\ InSeq(e.keys_to_delete, ke)
        /\ ~HasKey(e.payload, ks) /\ ~HasKey(e.payload, ke)
        /\ ~dry_run =>
              \A k \in {ks, ke} :
                  IsNone(meta[e.pid][k]) =>
                      /\ ~InSeq(calls'.delete_calls, k)
                      /\ IsNone(meta'[e.pid][k])

C7_Step ==
    Len(processed') > Len(processed) =>
        LET e == processed'[Len(processed')]
            w == by_vendor[e.plan]
            marked == {e.keys_to_delete[n] : n \in 1..Len(e.keys_to_delete)}
        IN /\ C7_Type(e, SaleIn(w), MF_SALE_START, MF_SALE_END)
           /\ C7_Type(e, PIIn(w), MF_PI_START, MF_PI_END)
           /\ (~dry_run /\ \A k \in marked : IsNone(meta[e.pid][k])) =>
                 /\ calls'.delete_calls = <<>>
                 /\ ~calls'.delete_failed

\* C7: when a type's window is absent or does not contain today, the step
\* that processes a product marks both keys of the type for deletion, whether
\* or not the product has the fields, and puts nothing of the type in the
\* payload; a marked key the product has no field for causes no delete call
\* and no error.
C7_DeleteMarks == [][C7_Step]_vars

\* a product that has no sale field was processed on a day after the end of
\* the Sale display window: both keys were marked, the ids were read, no delete
\* call was made
C7_Witness ==
    /\ processed # <<>>
    /\ ~dry_run
    /\ LET w == by_vendor[LastProcessed.plan] IN
       /\ ~IsNone(w.sale_display_end)
       /\ today > Val(w.sale_display_end)
       /\ InSeq(LastProcessed.keys_to_delete, MF_SALE_START)
       /\ InSeq(LastProcessed.keys_to_delete, MF_SALE_END)
    /\ calls.read_called /\ ~calls.read_failed
    /\ calls.delete_calls = <<>>

(* ---------------- runs and failures ---------------- *)
\* the products a vendor resolves to: its collection's, else those of the
\* vendor attribute
ResolvedProducts(vendor) ==
    LET col == find_collection_by_title_exact(vendor) IN
    IF ~IsNone(col) THEN list_product_ids_in_collection(Val(col))
    ELSE list_product_ids_by_vendor(vendor)

\* some row of the table, of vendor v and of a type in types, has a display
\* window that contains t (a Sale row counts when it has its end date)
TableWindowContains(v, types, t) ==
    \E k \in 1..Len(table) :
        LET r == table[k] IN
        /\ Strip(r.vendor) = v
        /\ Strip(r.entry_type) \in types
        /\ (r.entry_type \in SaleTypes => ~IsNone(r.end_date))
        /\ RuleStart(r, x, y) <= t
        /\ t <= RuleEnd(r, z)

\* C8: after each of a sequence of complete non-dry-run runs without external
\* failure, every product of a vendor that has rows in the table carries a
\* type's fields exactly when a display window of the vendor for that type
\* contains the run's today (the start field, and for Sale the end field, when
\* it does; neither field when it does not).
C8_FieldsFollowWindow ==
    (pc = "done" /\ clean) =>
        \A k \in 1..Len(table) :
            LET v == Strip(table[k].vendor)
                ids == ResolvedProducts(v)
            IN \A n \in 1..Len(ids) :
                  LET f == meta[ids[n]] IN
                  /\ IF TableWindowContains(v, SaleTypes, today)
                     THEN ~IsNone(f[MF_SALE_START]) /\ ~IsNone(f[MF_SALE_END])
                     ELSE IsNone(f[MF_SALE_START]) /\ IsNone(f[MF_SALE_END])
                  /\ IF TableWindowContains(v, PITypes, today)
                     THEN ~IsNone(f[MF_PI_START])
                     ELSE IsNone(f[MF_PI_START]) /\ IsNone(f[MF_PI_END])

C9_Type(e, inside, ks, ke) ==
    (~inside /\ ~IsNone(meta[e.pid][ks]) /\ ~IsNone(meta[e.pid][ke])) =>
        (IsNone(meta'[e.pid][ks]) <=> IsNone(meta'[e.pid][ke]))

C9_Step ==
    (Len(processed') > Len(processed) /\ ~dry_run /\ dbToday = today
     /\ Len(by_vendor) = 1) =>
        LET e == processed'[Len(processed')]
            w == by_vendor[e.plan]
        IN /\ C9_Type(e, SaleIn(w), MF_SALE_START, MF_SALE_END)
           /\ C9_Type(e, PIIn(w), MF_PI_START, MF_PI_END)

\* C9: a non-dry-run step (of a run with a single plan, whose query ran on the
\* run's today) that processes a product which has both fields of a type whose
\* display window excludes today never leaves exactly one of the two fields on
\* the product, whatever external call fails.
C9_NoPartialState == [][C9_Step]_vars

\* the entries of the products ids[from..to] of plan n
PlanLog(n, ids, upto) ==
    [j \in 1..upto |->
        [plan |-> n, pid |-> ids[j],
         payload |-> BuildPayload(by_vendor[n], today),
         keys_to_delete |-> KeysToDelete(by_vendor[n], today)]]

\* the entries of all products of the plans 1..n
RECURSIVE FullLog(_)
FullLog(n) ==
    IF n = 0 THEN <<>>
    ELSE LET ids == ResolvedProducts(by_vendor[n].vendor) IN
         FullLog(n - 1) \o PlanLog(n, ids, Len(ids))

\* C10: an external write, read-ids or delete call that fails for one product
\* neither ends the run nor changes what is done for the others: at every
\* position of the sync loop the products processed are all those before the
\* position, each with the payload and the keys to delete its plan and today
\* give; and after a failed write the ids of the product's keys to delete are
\* still read.
C10_FailureIsolated ==
    /\ (pc \in {"plans", "products", "done"} /\ run > 0 /\ rows # <<>>) =>
          processed =
              IF pc = "products"
              THEN FullLog(vi - 1) \o PlanLog(vi, product_ids, pj - 1)
              ELSE FullLog(vi - 1)
    /\ (pc = "done" /\ run > 0) => vi > Len(by_vendor)
    /\ (processed # <<>> /\ calls.write_failed /\ LastProcessed.keys_to_delete # <<>>) =>
          calls.read_called

\* a run has ended after a call failed for a product that was not its last
C10_Witness ==
    /\ pc = "done"
    /\ ~dry_run
    /\ nfail > 0
    /\ Raised(calls) = 0
    /\ Len(processed) >= 2
    /\ processed = FullLog(Len(by_vendor))

(* ---------------- dry run ---------------- *)
C11_Step ==
    dry_run' =>
        /\ meta' = meta
        /\ ~calls'.write_called
        /\ calls'.delete_calls = <<>>
        /\ Len(processed') > Len(processed) =>
              LET e == processed'[Len(processed')]
                  w == by_vendor[e.plan]
              IN /\ e.payload = BuildPayload(w, today)
                 /\ e.keys_to_delete = KeysToDelete(w, today)
                 /\ \A wfail \in BOOLEAN, rfail \in BOOLEAN, failAt \in 0..4 :
                       LET res == WriteThenDelete(meta, e.pid, e.payload, e.keys_to_delete,
                                                  wfail, rfail, failAt)
                       IN /\ res.calls.write_called <=> e.payload # <<>>
                          /\ res.calls.read_called <=> e.keys_to_delete # <<>>

\* C11: no step of a dry run calls metafields_set or metafield_delete, every
\* step of it leaves the metafields of every product as they were (so they are
\* after the run what they were before it), and the payload and the keys to
\* delete of each product are those the non-dry branch is given for the same
\* plan and today.
C11_DryRunFrame == [][C11_Step]_vars

\* a dry run has ended that processed a product carrying fields, with a
\* payload to write and keys to delete that a run which is not dry would act on
C11_Witness ==
    /\ pc = "done"
    /\ dry_run
    /\ processed # <<>>
    /\ LastProcessed.payload # <<>>
    /\ LastProcessed.keys_to_delete # <<>>
    /\ \E k \in 1..Len(LastProcessed.keys_to_delete) :
          ~IsNone(meta[LastProcessed.pid][LastProcessed.keys_to_delete[k]])
    /\ WriteThenDelete(meta, LastProcessed.pid, LastProcessed.payload,
                       LastProcessed.keys_to_delete, FALSE, FALSE, 0).meta # meta
    /\ calls = NoCalls

(* ---------------- the date normalizer ---------------- *)
\* the calendar: the lengths of the months of a year
MonthLengths(year) ==
    <<31, IF year % 400 = 0 \/ (year % 4 = 0 /\ year % 100 # 0) THEN 29 ELSE 28,
      31, 30, 31, 30, 31, 31, 30, 31, 30, 31>>
OnCalendar(year, m, d) ==
    /\ year \in 1..9999
    /\ m \in 1..12
    /\ d >= 1 /\ d <= MonthLengths(year)[m]

\* t is ten characters YYYY-MM-DD
IsIsoText(t) ==
    /\ Len(t) = 10
    /\ t[5] = "-" /\ t[8] = "-"
    /\ \A n \in {1, 2, 3, 4, 6, 7, 9, 10} : IsDigit(t[n])

\* the year, month and day an ISO text reads as
ParseIso(t) ==
    <<DigitsVal(SubSeq(t, 1, 4)), DigitsVal(SubSeq(t, 6, 7)), DigitsVal(SubSeq(t, 9, 10))>>

\* C12: parse_mm_dd maps the text month<sep>day of every date on the calendar
\* of the default year, for each separator, to a YYYY-MM-DD text that reads
\* back as exactly that date; returns a ten-character YYYY-MM-DD input
\* unchanged; and raises, giving no date, when the input is empty, when it
\* has no separator or a separator splits it into more than two parts, or when
\* month and day are no date of the year's calendar.
C12_DateNormalizer ==
    pc = "parsed" =>
        LET s == Strip(date_in)
            year == IF default_year # 0 THEN default_year ELSE now_year
            iso == Len(s) = 10 /\ s[5] = "-" /\ s[8] = "-"
            failed == date_out.raised # "" /\ date_out.value = <<>>
        IN /\ \A m \in 0..MaxMonthText, d \in 0..MaxDayText, k \in 1..3, fill \in BOOLEAN :
                 date_in = MonthDayText(m, Separators[k], d, fill) =>
                     IF OnCalendar(year, m, d)
                     THEN /\ date_out.raised = ""
                          /\ IsIsoText(date_out.value)
                          /\ ParseIso(date_out.value) = <<year, m, d>>
                     ELSE failed
           /\ IsIsoText(date_in) => date_out = Returned(date_in)
           /\ s = <<>> => failed
           /\ (~iso /\ \A k \in 1..3 : ~Contains(s, Separators[k])) => failed
           /\ (~iso /\ \E k \in 1..3 : Len(SplitSep(s, Separators[k])) > 2) => failed

\* the leap day of 2024, written 2.29, was normalized to 2024-02-29
C12_Witness ==
    /\ pc = "parsed"
    /\ date_in = <<"2", ".", "2", "9">>
    /\ default_year = 2024
    /\ date_out = Returned(<<"2", "0", "2", "4", "-", "0", "2", "-", "2", "9">>)

(* ---------------- the retries of graphql ---------------- *)
\* a response that carries no error
Good(resp) == resp.status \in 200..399 /\ ~resp.errors

C13_Safe ==
    pc \in {"graphql", "graphql_returned", "graphql_raised"} =>
        /\ Len(sent) <= retries
        /\ \A n \in 1..Len(sent) :
              Good(sent[n]) => n = Len(sent) /\ pc = "graphql_returned"
        /\ pc = "graphql_returned" =>
              sent # <<>> /\ gql_out = sent[Len(sent)] /\ Good(gql_out)
        /\ pc = "graphql_raised" =>
              Len(sent) = retries /\ last_err # "" /\ \A n \in 1..Len(sent) : ~Good(sent[n])
        /\ Len(slept) = Cardinality({n \in 1..Len(sent) : ~Good(sent[n])})
        /\ \A n \in 1..Len(slept) : slept[n] > 0
        /\ \A n \in 1..(Len(slept) - 1) : slept[n] < slept[n + 1]

C13_Ended == pc \in {"graphql_returned", "graphql_raised"}

\* C13: graphql posts at most `retries` requests, returns the response of the
\* first request that succeeds and posts nothing after it, sleeps after every
\* failed request a delay longer than after the one before, raises once
\* `retries` requests have failed, never returns a response with an error
\* status or with errors, and always ends by returning or raising.
C13_GraphqlTerminates == []C13_Safe /\ <>C13_Ended

\* the third request succeeded after two rate-limit or server statuses
C13_Witness ==
    /\ pc = "graphql_returned"
    /\ retries = MaxRetries
    /\ Len(sent) = 3
    /\ sent[1].status = 429 /\ sent[2].status = 503
    /\ slept = <<12, 22>>
    /\ Good(gql_out)

(* ---------------- plans that share products, fields that stay ---------------- *)
HasFields(p, ks) == \A k \in ks : ~IsNone(meta[p][k])
LacksFields(p, ks) == \A k \in ks : IsNone(meta[p][k])

\* C14: at the end of a non-dry-run without failure, every product a plan of
\* the run resolved to carries the Sale fields exactly when the Sale window of
\* that plan contains today, and the PriceIncrease start field exactly when
\* its PriceIncrease window does: what was done for one plan is not undone for
\* a later plan of the run.
C14_PlanNotUndone ==
    (pc = "done" /\ run > 0 /\ clean) =>
        \A n \in 1..Len(by_vendor) :
            LET w == by_vendor[n]
                ids == ResolvedProducts(w.vendor)
            IN \A j \in 1..Len(ids) :
                  /\ IF SaleIn(w) THEN HasFields(ids[j], {MF_SALE_START, MF_SALE_END})
                     ELSE LacksFields(ids[j], {MF_SALE_START, MF_SALE_END})
                  /\ IF PIIn(w) THEN HasFields(ids[j], {MF_PI_START})
                     ELSE LacksFields(ids[j], {MF_PI_START, MF_PI_END})

\* C15: at the end of a non-dry-run without failure that had a single plan,
\* with a PriceIncrease window that contains today, every product of the
\* vendor carries the PriceIncrease end field exactly when the plan's realEnd
\* is present, and with that value.
C15_PIEndFollowsPlan ==
    (pc = "done" /\ run > 0 /\ clean /\ Len(by_vendor) = 1 /\ PIIn(by_vendor[1])) =>
        LET w == by_vendor[1]
            ids == ResolvedProducts(w.vendor)
        IN \A j \in 1..Len(ids) : meta[ids[j]][MF_PI_END] = w.pi_real_end

====
